---- MODULE Spec2Model ----
(***************************************************************************)
(* Model of the data-science-project pipeline:                             *)
(*   etl/data_collector.py  DataCollector.collect_all_data                 *)
(*   etl/data_processor.py  DataProcessor.clean_*, create_features,        *)
(*                          process_all_data                               *)
(*   models/ml_models.py    MLModels (training, prediction, save/load)     *)
(*   etl/main.py            ETLPipeline.run_full_pipeline                  *)
(*   backend/main.py        POST /predict                                  *)
(*                                                                         *)
(* A pandas table is abstracted to its shape: the number of rows, the set  *)
(* of column names, the number of rows holding an undefined (NaN) value,   *)
(* the number of rows the domain's outlier rule removes, the class         *)
(* structure of the classification target, and how each candidate          *)
(* estimator fares when fitted on it.  Cell values are modelled only in    *)
(* prediction requests.                                                    *)
(***************************************************************************)
EXTENDS Integers, Sequences, FiniteSets, TLC

VARIABLES
    source,            \* what each external data source delivers to its collector
    pc,                \* position of run_full_pipeline
    idx,               \* position inside the current per-domain loop
    raw_data,          \* dict returned by collect_all_data
    processed_data,    \* dict built by process_all_data
    model_results,     \* dict built by train_all_models
    pipeline_results,  \* the run record returned by run_full_pipeline
    events,            \* the stage log of the run, in order
    processor,         \* the DataProcessor object: scalers, label_encoders, imputers
    platform,          \* start.py: the launcher's threads, process list and servers
    mlm,               \* the MLModels objects: models, model_metadata, feature_importance
    disk,              \* storage: model bundles, csv files, persisted run records
    last_call,         \* outcome of the last call of an MLModels method
    response           \* last HTTP response of POST /predict

vars == <<source, pc, idx, raw_data, processed_data, model_results,
          pipeline_results, events, processor, platform, mlm, disk, last_call,
          response>>

\* the locals of run_full_pipeline
runVars == <<source, pc, idx, raw_data, processed_data, model_results,
             pipeline_results, events>>

\* the locals of run_full_pipeline, the pipeline's DataProcessor and the
\* launcher that runs the pipeline as its first step
pipeVars == <<runVars, processor, platform>>

\* everything but the launcher
appVars == <<runVars, processor, mlm, disk, last_call, response>>

----------------------------------------------------------------------------
(* Generic helpers for dicts (functions) and lists (sequences).            *)

EmptyDict == <<>>

Put(m, k, v) == [x \in (DOMAIN m) \cup {k} |-> IF x = k THEN v ELSE m[x]]

Range(s) == {s[i] : i \in DOMAIN s}

Min(a, b) == IF a < b THEN a ELSE b

Max(a, b) == IF a > b THEN a ELSE b

\* ceil(a / b) for positive b
CeilDiv(a, b) == (a + b - 1) \div b

----------------------------------------------------------------------------
(* Bounds of the model.                                                    *)

\* largest score a candidate estimator can reach on the held-out partition
MaxScore == 2

\* number of distinct non-missing cell values in a prediction request
MaxValue == 1

----------------------------------------------------------------------------
(* Tables.                                                                 *)

Domains == {"covid", "weather", "stock", "public"}

\* a candidate's fit: it raises, or it yields held-out metrics
FitFail == [ok |-> FALSE, score |-> 0, rmse |-> 0]

FitOk(s, e) == [ok |-> TRUE, score |-> s, rmse |-> e]

\* pd.DataFrame()
EmptyTable == [rows |-> 0, cols |-> {}, nulls |-> 0, outliers |-> 0,
               classes |-> 0, minclass |-> 0, fit |-> <<FitFail, FitFail, FitFail>>]

\* DataFrame.empty
IsEmpty(t) == t.rows = 0 \/ t.cols = {}

\* result of an operation that may raise
Ok(t) == [exc |-> "", tbl |-> t]

Raise(e) == [exc |-> e, tbl |-> EmptyTable]

\* DataSciencePlatform(): no process started, running set; the threads of
\* start_platform are at their first statements
NewPlatform ==
    [main |-> "etl", backend |-> "unstarted", frontend |-> "unstarted",
     attempt |-> 0, running |-> TRUE, processes |-> <<>>, i |-> 1,
     alive |-> {}, ready |-> FALSE, health_ok |-> FALSE]

----------------------------------------------------------------------------
(* DataProcessor: per-domain cleaning (etl/data_processor.py).             *)

\* window of the counts domain's rolling means
CovidWindow == 7

\* longest rolling window of the market-series indicators (sma_20, bb, volume_sma)
StockWindow == 20

\* longest lag of the counts domain's lag features (cases_lag_7)
CovidLag == 7

CovidCleanAdds == {"case_fatality_rate", "recovery_rate", "cases_7d_avg",
                   "deaths_7d_avg", "cases_growth_rate", "deaths_growth_rate"}

WeatherCleanAdds == {"temp_fahrenheit", "feels_like", "hour", "day_of_week", "month"}

StockCleanAdds == {"sma_5", "sma_20", "ema_12", "ema_26", "macd", "macd_signal",
                   "rsi", "bb_middle", "bb_upper", "bb_lower", "momentum_5",
                   "momentum_10", "volume_sma", "volume_ratio"}

PublicCleanAdds == {"population_millions", "log_population", "population_category"}

\* rows left by DataFrame.dropna()
DropNa(t) == [t EXCEPT !.rows = t.rows - t.nulls, !.nulls = 0]

\* rows left by the domain's outlier / validity filter
DropOutliers(t) == [t EXCEPT !.rows = t.rows - Min(t.rows, t.outliers), !.outliers = 0]

\* a rolling window of w samples leaves the first w-1 rows undefined
Rolling(t, w) == [t EXCEPT !.nulls = Min(t.rows, Max(t.nulls, w - 1))]

\* shift(k) leaves the first k rows undefined
Shift(t, k) == [t EXCEPT !.nulls = Min(t.rows, Max(t.nulls, k))]

AddCols(t, cs) == [t EXCEPT !.cols = t.cols \cup cs]

clean_covid_data(df) ==
    IF IsEmpty(df) THEN Ok(df)
    ELSE IF ~({"cases", "deaths", "recovered"} \subseteq df.cols) THEN Raise("KeyError")
    ELSE \* fillna(0), clip, rates, rolling means, pct_change
         Ok(AddCols(Rolling([df EXCEPT !.nulls = 0], CovidWindow), CovidCleanAdds))

clean_weather_data(df) ==
    IF IsEmpty(df) THEN Ok(df)
    ELSE IF ~({"temperature", "datetime"} \subseteq df.cols) THEN Raise("KeyError")
    ELSE Ok(AddCols(DropOutliers(DropNa(df)),
                    WeatherCleanAdds \cup
                    (IF "description" \in df.cols THEN {"weather_code"} ELSE {})))

clean_stock_data(df) ==
    IF IsEmpty(df) THEN Ok(df)
    ELSE IF ~({"daily_return", "close", "volume"} \subseteq df.cols) THEN Raise("KeyError")
    ELSE Ok(AddCols(Rolling(DropOutliers(DropNa(df)), StockWindow), StockCleanAdds))

clean_public_data(df) ==
    IF IsEmpty(df) THEN Ok(df)
    ELSE IF ~("population" \in df.cols) THEN Raise("KeyError")
    ELSE Ok(AddCols(DropOutliers(DropNa(df)), PublicCleanAdds))

create_features(df, data_type) ==
    IF data_type = "covid" THEN
        IF ~({"date", "cases", "deaths"} \subseteq df.cols) THEN Raise("KeyError")
        ELSE Ok(AddCols(Shift(df, CovidLag),
                        {"day_of_year", "week_of_year", "month",
                         "cases_lag_1", "cases_lag_7", "deaths_lag_1"}))
    ELSE IF data_type = "stock" THEN
        IF ~({"close", "open", "high", "low", "date"} \subseteq df.cols) THEN Raise("KeyError")
        ELSE Ok(AddCols(df, {"price_change", "price_change_pct", "high_low_ratio",
                             "close_open_ratio", "day_of_week", "month", "quarter"}))
    ELSE IF data_type = "weather" THEN
        IF ~({"month", "day_of_week", "temperature"} \subseteq df.cols) THEN Raise("KeyError")
        ELSE Ok(AddCols(df, {"is_summer", "is_winter", "is_weekend", "temp_category"}))
    ELSE Ok(df)

\* one iteration of the loop of process_all_data: clean, then create features
clean_domain(source_name, df) ==
    IF source_name = "covid" THEN clean_covid_data(df)
    ELSE IF source_name = "weather" THEN clean_weather_data(df)
    ELSE IF source_name = "stock" THEN clean_stock_data(df)
    ELSE clean_public_data(df)

process_one(source_name, df) ==
    LET c == clean_domain(source_name, df)
    IN  IF c.exc # "" THEN c ELSE create_features(c.tbl, source_name)

\* DataProcessor.__init__
NewDataProcessor == [scalers |-> EmptyDict, label_encoders |-> EmptyDict,
                     imputers |-> EmptyDict]

\* the description labels of a table kept by its shape: every row of it
\* carries the same label; labels are numbered in their sort order
ShapeLabels(t) == IF t.rows > 0 THEN {1} ELSE {}

\* LabelEncoder.fit: classes_ is the sorted list of the distinct labels
RECURSIVE Sorted(_)
Sorted(labels) ==
    IF labels = {} THEN <<>>
    ELSE LET m == CHOOSE x \in labels : \A y \in labels : x <= y
         IN  <<m>> \o Sorted(labels \ {m})

\* what clean_<source>_data(df) leaves in the DataProcessor object: only
\* clean_weather_data stores anything, the encoder it fitted on the
\* description column of the cleaned table
clean_effect(proc, source_name, df) ==
    LET c == clean_domain(source_name, df)
    IN  IF source_name = "weather" /\ ~IsEmpty(df) /\ c.exc = ""
           /\ "description" \in df.cols
        THEN [proc EXCEPT !.label_encoders =
                 Put(@, "weather_description", Sorted(ShapeLabels(c.tbl)))]
        ELSE proc

----------------------------------------------------------------------------
(* MLModels: training (models/ml_models.py).                               *)

Trainable == {"covid", "stock", "weather"}

ModelName(d) ==
    IF d = "covid" THEN "covid_forecast"
    ELSE IF d = "stock" THEN "stock_prediction"
    ELSE "weather_classification"

ModelNames == {ModelName(d) : d \in Trainable}

CovidFeatureCols ==
    <<"cases", "deaths", "recovered", "new_cases", "new_deaths",
      "case_fatality_rate", "recovery_rate", "cases_7d_avg",
      "deaths_7d_avg", "cases_growth_rate", "deaths_growth_rate",
      "day_of_year", "week_of_year", "month">>

StockFeatureCols ==
    <<"open", "high", "low", "volume", "daily_return", "volatility",
      "sma_5", "sma_20", "ema_12", "ema_26", "macd", "macd_signal",
      "rsi", "bb_middle", "bb_upper", "bb_lower", "momentum_5",
      "momentum_10", "volume_sma", "volume_ratio", "price_change",
      "price_change_pct", "high_low_ratio", "close_open_ratio",
      "day_of_week", "month", "quarter">>

WeatherFeatureCols ==
    <<"temperature", "humidity", "pressure", "wind_speed",
      "temp_fahrenheit", "hour", "day_of_week", "month",
      "is_summer", "is_winter", "is_weekend">>

FeatureCols(d) ==
    IF d = "covid" THEN CovidFeatureCols
    ELSE IF d = "stock" THEN StockFeatureCols
    ELSE WeatherFeatureCols

\* the column the target is built from
TargetSource(d) ==
    IF d = "covid" THEN "cases" ELSE IF d = "stock" THEN "close" ELSE "temperature"

CovidRowFloor == 10

StockRowFloor == 20

WeatherRowFloor == 10

CovidFeatureFloor == 3

StockFeatureFloor == 5

WeatherFeatureFloor == 3

RowFloor(d) ==
    IF d = "covid" THEN CovidRowFloor
    ELSE IF d = "stock" THEN StockRowFloor ELSE WeatherRowFloor

FeatureFloor(d) ==
    IF d = "covid" THEN CovidFeatureFloor
    ELSE IF d = "stock" THEN StockFeatureFloor ELSE WeatherFeatureFloor

\* the candidate estimators, in the insertion order of the models dict
Candidates(d) ==
    IF d = "covid" THEN <<"random_forest", "linear_regression", "xgboost">>
    ELSE IF d = "stock" THEN <<"random_forest", "xgboost", "svr">>
    ELSE <<"random_forest", "logistic_regression", "svc">>

\* hasattr(best_model, 'feature_importances_')
HasImportances(kind) == kind \in {"random_forest", "xgboost"}

\* a selection that takes every feature column, present in the table or not
AvailableFeatures_all(feature_cols, columns) == feature_cols

\* [col for col in feature_cols if col in df.columns]
AvailableFeatures(feature_cols, columns) ==
    SelectSeq(feature_cols, LAMBDA c : c \in columns)

\* rows of df_model after the target is built and dropna() is applied:
\* the forecasting target shift(-1) is undefined on the last row
ModelRows(d, df) ==
    IF d = "weather" THEN df.rows - df.nulls
    ELSE IF df.rows > df.nulls THEN df.rows - df.nulls - 1 ELSE 0

\* size of the held-out partition for test_size = 0.2
TestRows(n) == CeilDiv(n, 5)

\* train_test_split(..., stratify=y) raises when a class has a single member
\* or a partition is smaller than the number of classes
StratifyRaises(df, n) ==
    \/ df.minclass < 2
    \/ TestRows(n) < df.classes
    \/ n - TestRows(n) < df.classes

\* a loop that a raising candidate ends: the candidates after it are not fitted
RECURSIVE TrainLoop_stopAtFailure(_, _, _, _)
TrainLoop_stopAtFailure(names, fit, i, acc) ==
    IF i > Len(names) \/ ~fit[i].ok THEN acc
    ELSE LET better == fit[i].score > acc.best_score
         IN  TrainLoop_stopAtFailure(names, fit, i + 1,
                 [results    |-> Append(acc.results,
                                    [name |-> names[i], score |-> fit[i].score,
                                     rmse |-> fit[i].rmse]),
                  best_model |-> IF better THEN names[i] ELSE acc.best_model,
                  best_score |-> IF better THEN fit[i].score ELSE acc.best_score])

\* a loop that replaces the best model by every candidate that fits
RECURSIVE TrainLoop_lastFitWins(_, _, _, _)
TrainLoop_lastFitWins(names, fit, i, acc) ==
    IF i > Len(names) THEN acc
    ELSE IF ~fit[i].ok THEN TrainLoop_lastFitWins(names, fit, i + 1, acc)
    ELSE TrainLoop_lastFitWins(names, fit, i + 1,
             [results    |-> Append(acc.results,
                                [name |-> names[i], score |-> fit[i].score,
                                 rmse |-> fit[i].rmse]),
              best_model |-> names[i],
              best_score |-> fit[i].score])

\* the for-loop over the candidates: each fit is tried in order, a raising
\* candidate is skipped, the best is replaced only by a strictly better score
RECURSIVE TrainLoop(_, _, _, _)
TrainLoop(names, fit, i, acc) ==
    IF i > Len(names) THEN acc
    ELSE IF ~fit[i].ok THEN TrainLoop(names, fit, i + 1, acc)
    ELSE LET r == [name |-> names[i], score |-> fit[i].score, rmse |-> fit[i].rmse]
             better == fit[i].score > acc.best_score
         IN  TrainLoop(names, fit, i + 1,
                 [results    |-> Append(acc.results, r),
                  best_model |-> IF better THEN names[i] ELSE acc.best_model,
                  best_score |-> IF better THEN fit[i].score ELSE acc.best_score])

Perf(r) == [score |-> r.score, rmse |-> r.rmse]

\* the score that stands for an undefined metric (NaN)
NaNScore == -2

\* a > b on metrics: every comparison with an undefined metric is false
Greater(a, b) == a # NaNScore /\ b # NaNScore /\ a > b

\* the scan of max(): the entry held is replaced by a later one only when the
\* later one compares greater
RECURSIVE MaxScan(_, _, _)
MaxScan(results, i, held) ==
    IF i > Len(results) THEN held
    ELSE MaxScan(results, i + 1,
                 IF Greater(results[i].score, results[held].score) THEN i ELSE held)

\* max(results.values(), key=primary metric): the first maximal entry, or the
\* first entry when its metric is undefined
MaxPerf(results) == Perf(results[MaxScan(results, 2, 1)])

\* list(results.keys())[list(results.values()).index(max(...))]
BestModelName(results) ==
    LET m == MaxPerf(results)
        i == CHOOSE i \in DOMAIN results :
                 /\ Perf(results[i]) = m
                 /\ \A j \in 1..(i - 1) : Perf(results[j]) # m
    IN  results[i].name

\* what a train_* method returns and what it leaves in the MLModels object
TrainOutcome(exc, results, reg) == [exc |-> exc, results |-> results, reg |-> reg]

train_model(d, df, reg) ==
    LET available_features == AvailableFeatures(FeatureCols(d), df.cols)
        n == ModelRows(d, df)
        loop == TrainLoop(Candidates(d), df.fit, 1,
                          [results |-> <<>>, best_model |-> "None", best_score |-> -1])
        name == ModelName(d)
    IN  IF IsEmpty(df) \/ df.rows < RowFloor(d) THEN TrainOutcome("", <<>>, reg)
        ELSE IF Len(available_features) < FeatureFloor(d) THEN TrainOutcome("", <<>>, reg)
        ELSE IF TargetSource(d) \notin df.cols THEN TrainOutcome("KeyError", <<>>, reg)
        ELSE IF n < RowFloor(d) THEN TrainOutcome("", <<>>, reg)
        ELSE IF d = "weather" /\ StratifyRaises(df, n) THEN TrainOutcome("ValueError", <<>>, reg)
        ELSE IF loop.best_model = "None" THEN TrainOutcome("", <<>>, reg)
        ELSE TrainOutcome("", loop.results,
                 [models |-> Put(reg.models, name,
                                 [kind |-> loop.best_model, features |-> available_features]),
                  model_metadata |-> Put(reg.model_metadata, name,
                                 [features    |-> available_features,
                                  best_model  |-> BestModelName(loop.results),
                                  performance |-> loop.results]),
                  feature_importance |->
                      IF HasImportances(loop.best_model)
                      THEN Put(reg.feature_importance, name, available_features)
                      ELSE reg.feature_importance])

\* MLModels.__init__
NewMLModels == [models |-> EmptyDict, model_metadata |-> EmptyDict,
                feature_importance |-> EmptyDict]

----------------------------------------------------------------------------
(* MLModels: persistence (models/ml_models.py).                            *)

\* a bundle written without the metadata of its models
save_models_dropMetadata(reg) ==
    [models |-> reg.models, metadata |-> EmptyDict,
     feature_importance |-> reg.feature_importance]

\* the model_data dict that save_models hands to joblib.dump
save_models(reg) ==
    [models |-> reg.models, metadata |-> reg.model_metadata,
     feature_importance |-> reg.feature_importance]

\* a load that merges the bundle into the entries already held
load_models_merge(reg, model_data) ==
    [models |-> [n \in DOMAIN reg.models \cup DOMAIN model_data.models |->
                    IF n \in DOMAIN model_data.models
                    THEN model_data.models[n] ELSE reg.models[n]],
     model_metadata |-> [n \in DOMAIN reg.model_metadata \cup DOMAIN model_data.metadata |->
                    IF n \in DOMAIN model_data.metadata
                    THEN model_data.metadata[n] ELSE reg.model_metadata[n]],
     feature_importance |->
                   [n \in DOMAIN reg.feature_importance
                          \cup DOMAIN model_data.feature_importance |->
                    IF n \in DOMAIN model_data.feature_importance
                    THEN model_data.feature_importance[n] ELSE reg.feature_importance[n]]]

\* load_models: the three attributes are rebound to the bundle's sections
load_models(reg, model_data) ==
    [models |-> model_data.models, model_metadata |-> model_data.metadata,
     feature_importance |-> model_data.feature_importance]

\* get_model_summary: the number of stored estimators and one entry for every
\* name of the metadata map
get_model_summary(reg) ==
    [total_models |-> Cardinality(DOMAIN reg.models),
     models |-> [name \in DOMAIN reg.model_metadata |->
                    [best_model |-> reg.model_metadata[name].best_model,
                     features_count |-> Len(reg.model_metadata[name].features),
                     performance |-> reg.model_metadata[name].performance]]]

----------------------------------------------------------------------------
(* The external data sources and DataCollector (etl/data_collector.py).    *)

\* the order in which collect_all_data fills its dict
CollectOrder == <<"covid", "weather", "stock", "public">>

\* the order in which train_all_models calls the trainers
TrainOrder == <<"covid", "stock", "weather">>

RawCols(d) ==
    IF d = "covid" THEN {"cases", "deaths", "recovered", "date",
                         "new_cases", "new_deaths", "new_recovered"}
    ELSE IF d = "weather" THEN {"datetime", "temperature", "humidity", "pressure",
                                "description", "wind_speed"}
    ELSE IF d = "stock" THEN {"date", "open", "high", "low", "close", "volume",
                              "daily_return", "volatility"}
    ELSE {"country", "population", "scraped_date"}

\* window of the collector's rolling volatility of daily_return
VolatilityWindow == 5

\* undefined cells the collector itself creates: diff() on the first row of
\* the counts series, pct_change() and its rolling std on the market series
RawNulls(d, rows) ==
    IF d = "covid" THEN Min(rows, 1)
    ELSE IF d = "stock" THEN Min(rows, VolatilityWindow)
    ELSE 0

\* the table a collector builds from n source records
RawTable(d, n, out, classes, minclass, fit) ==
    [rows |-> n, cols |-> RawCols(d), nulls |-> RawNulls(d, n), outliers |-> out,
     classes |-> classes, minclass |-> minclass, fit |-> fit]

FitsNone == <<FitFail, FitFail, FitFail>>

FitsMixed == <<FitOk(1, 1), FitOk(MaxScore, 0), FitFail>>

\* what a source may deliver in a run: nothing (unreachable, unauthorised,
\* malformed), too short a series, a series on which no candidate fits, a
\* good series; for the weather forecast also a series whose temperature
\* classes include one with a single observation
SourceTables(d) ==
    {EmptyTable} \cup
    IF d = "public" THEN {RawTable(d, 20, 1, 0, 0, FitsNone)}
    ELSE IF d = "weather" THEN
        {RawTable(d, 8, 0, 2, 4, FitsMixed),
         RawTable(d, 40, 2, 3, 4, FitsMixed),
         RawTable(d, 40, 2, 3, 1, FitsMixed)}
    ELSE {RawTable(d, RowFloor(d) + 2, 0, 0, 0, FitsMixed),
          RawTable(d, 3 * RowFloor(d), 0, 0, 0, FitsNone),
          RawTable(d, 3 * RowFloor(d), 0, 0, 0, FitsMixed)}

\* collect_<source>(): any failure of the request is caught and yields an
\* empty table
collect(d, delivered) == delivered

----------------------------------------------------------------------------
(* ETLPipeline.run_full_pipeline (etl/main.py).                            *)

Stages == <<"collect", "process", "train", "save", "insights", "report", "done">>

StageRank(s) == CHOOSE i \in DOMAIN Stages : Stages[i] = s

\* a statement sequence that summarizes insights before the bundle is saved
NextStage_insightsFirst(s) ==
    IF s = "train" THEN "insights"
    ELSE IF s = "insights" THEN "save"
    ELSE IF s = "save" THEN "report"
    ELSE Stages[StageRank(s) + 1]

\* the statement sequence of run_full_pipeline: steps 1..6, then return
NextStage(s) == Stages[StageRank(s) + 1]

Event(stage, d) == [stage |-> stage, domain |-> d]

\* raw_data.items(): insertion order of collect_all_data
RawOrder == SelectSeq(CollectOrder, LAMBDA d : d \in DOMAIN raw_data)

\* the trainers train_all_models calls: those whose key is in processed_data
TrainDue == SelectSeq(TrainOrder, LAMBDA d : d \in DOMAIN processed_data)

\* the except clause of run_full_pipeline
Failed(results, exc) ==
    [results EXCEPT !.status = "failed", !.errors = Append(@, exc)]

generate_insights(processed) ==
    LET live == {d \in DOMAIN processed : ~IsEmpty(processed[d])}
    IN  [d \in live |-> [total_records |-> processed[d].rows]]

BundlePath == "trained_models"

InitRun ==
    /\ source \in [Domains -> UNION {SourceTables(d) : d \in Domains}]
    /\ \A d \in Domains : source[d] \in SourceTables(d)
    /\ pc = "collect"
    /\ idx = 1
    /\ raw_data = EmptyDict
    /\ processed_data = EmptyDict
    /\ model_results = EmptyDict
    /\ pipeline_results = [status |-> "completed", data_sources |-> EmptyDict,
                           models_trained |-> EmptyDict, errors |-> <<>>,
                           has_insights |-> FALSE, insights |-> EmptyDict]
    /\ events = <<>>
    /\ processor = NewDataProcessor
    /\ platform = NewPlatform
    /\ mlm = [o \in {"etl", "api"} |-> NewMLModels]
    /\ disk = [bundles |-> EmptyDict, csv |-> {}, reports |-> <<>>]
    /\ last_call = [kind |-> "none"]
    /\ response = [status |-> 0]

\* collect_all_data: one collector per source; an empty table is left out
CollectStep ==
    /\ pc = "collect"
    /\ idx <= Len(CollectOrder)
    /\ LET d == CollectOrder[idx]
           df == collect(d, source[d])
       IN  /\ raw_data' = IF IsEmpty(df) THEN raw_data ELSE Put(raw_data, d, df)
           /\ events' = Append(events, Event("collect", d))
    /\ idx' = idx + 1
    /\ UNCHANGED <<platform, processor, source, pc, processed_data, model_results, pipeline_results,
                   mlm, disk, last_call, response>>

\* the loop over raw_data.items(): record each source, save its raw csv
RecordSources ==
    /\ pc = "collect"
    /\ idx > Len(CollectOrder)
    /\ pipeline_results' =
          [pipeline_results EXCEPT !.data_sources =
              [d \in DOMAIN raw_data |->
                  [records |-> raw_data[d].rows, columns |-> raw_data[d].cols]]]
    /\ disk' = [disk EXCEPT !.csv = @ \cup {<<"raw", d>> : d \in DOMAIN raw_data}]
    /\ pc' = NextStage(pc)
    /\ idx' = 1
    /\ UNCHANGED <<platform, processor, source, raw_data, processed_data, model_results, events,
                   mlm, last_call, response>>

\* one iteration of process_all_data; an exception leaves through the
\* except clause of run_full_pipeline
ProcessStep ==
    /\ pc = "process"
    /\ idx <= Len(RawOrder)
    /\ LET d == RawOrder[idx]
           r == process_one(d, raw_data[d])
       IN  /\ events' = Append(events, Event("process", d))
           /\ processor' = clean_effect(processor, d, raw_data[d])
           /\ IF r.exc # ""
              THEN /\ pipeline_results' = Failed(pipeline_results, r.exc)
                   /\ pc' = "done"
                   /\ UNCHANGED processed_data
              ELSE /\ processed_data' = Put(processed_data, d, r.tbl)
                   /\ UNCHANGED <<pipeline_results, pc>>
    /\ idx' = idx + 1
    /\ UNCHANGED <<platform, source, raw_data, model_results, mlm, disk, last_call,
                   response>>

\* the loop over processed_data.items(): save each non-empty processed csv
SaveProcessed ==
    /\ pc = "process"
    /\ idx > Len(RawOrder)
    /\ disk' = [disk EXCEPT !.csv = @ \cup
                  {<<"processed", d>> : d \in {x \in DOMAIN processed_data :
                                                  ~IsEmpty(processed_data[x])}}]
    /\ pc' = NextStage(pc)
    /\ idx' = 1
    /\ UNCHANGED <<platform, processor, source, raw_data, processed_data, model_results,
                   pipeline_results, events, mlm, last_call, response>>

\* one trainer call of train_all_models
TrainStep ==
    /\ pc = "train"
    /\ idx <= Len(TrainDue)
    /\ LET d == TrainDue[idx]
           r == train_model(d, processed_data[d], mlm["etl"])
       IN  /\ events' = Append(events, Event("train", d))
           /\ IF r.exc # ""
              THEN /\ pipeline_results' = Failed(pipeline_results, r.exc)
                   /\ pc' = "done"
                   /\ UNCHANGED <<model_results, mlm>>
              ELSE /\ model_results' = Put(model_results, d, r.results)
                   /\ mlm' = [mlm EXCEPT !["etl"] = r.reg]
                   /\ UNCHANGED <<pipeline_results, pc>>
    /\ idx' = idx + 1
    /\ UNCHANGED <<platform, processor, source, raw_data, processed_data, disk, last_call, response>>

\* the loop over model_results.items(): only non-empty results are recorded
RecordModels ==
    /\ pc = "train"
    /\ idx > Len(TrainDue)
    /\ pipeline_results' =
          [pipeline_results EXCEPT !.models_trained =
              [d \in {x \in DOMAIN model_results : model_results[x] # <<>>} |->
                  model_results[d]]]
    /\ pc' = NextStage(pc)
    /\ idx' = 1
    /\ UNCHANGED <<platform, processor, source, raw_data, processed_data, model_results, events,
                   mlm, disk, last_call, response>>

\* step 4: the bundle is written when the registry holds a model
SaveModels ==
    /\ pc = "save"
    /\ IF mlm["etl"].models # EmptyDict
       THEN /\ disk' = [disk EXCEPT !.bundles =
                           Put(@, BundlePath, save_models(mlm["etl"]))]
            /\ events' = Append(events, Event("save", ""))
       ELSE UNCHANGED <<disk, events>>
    /\ pc' = NextStage(pc)
    /\ UNCHANGED <<platform, processor, source, idx, raw_data, processed_data, model_results,
                   pipeline_results, mlm, last_call, response>>

\* step 5
Insights ==
    /\ pc = "insights"
    /\ pipeline_results' = [pipeline_results EXCEPT
                               !.has_insights = TRUE,
                               !.insights = generate_insights(processed_data)]
    /\ events' = Append(events, Event("insights", ""))
    /\ pc' = NextStage(pc)
    /\ UNCHANGED <<platform, processor, source, idx, raw_data, processed_data, model_results,
                   mlm, disk, last_call, response>>

\* step 6: json.dump of the run record
WriteReport ==
    /\ pc = "report"
    /\ disk' = [disk EXCEPT !.reports = Append(@, pipeline_results)]
    /\ events' = Append(events, Event("report", ""))
    /\ pc' = NextStage(pc)
    /\ UNCHANGED <<platform, processor, source, idx, raw_data, processed_data, model_results,
                   pipeline_results, mlm, last_call, response>>

NextRun ==
    \/ CollectStep
    \/ RecordSources
    \/ ProcessStep
    \/ SaveProcessed
    \/ TrainStep
    \/ RecordModels
    \/ SaveModels
    \/ Insights
    \/ WriteReport

Spec == InitRun /\ [][NextRun]_vars

----------------------------------------------------------------------------
(* Properties of run_full_pipeline.                                        *)

Returned == pc = "done"

\* what cleaning and feature creation make of a source's table, taken alone
ProcessedAlone(d) == process_one(d, collect(d, source[d]))

\* what training makes of a domain's table in a run of that domain alone
TrainedAlone(d) == train_model(d, ProcessedAlone(d).tbl, NewMLModels)

\* the domain's own cleaning, feature creation or training raises
DomainRaises(d) ==
    /\ ~IsEmpty(source[d])
    /\ \/ ProcessedAlone(d).exc # ""
       \/ d \in Trainable /\ TrainedAlone(d).exc # ""

Failing == {d \in Domains : DomainRaises(d)}

StageEvents(stage) == {i \in DOMAIN events : events[i].stage = stage}

\* a source produced a usable (non-empty, processed) table
Usable(d) == d \in DOMAIN processed_data /\ ~IsEmpty(processed_data[d])

\* C1: when exactly one domain raises while being cleaned, featurized or
\* trained, the run is not aborted (insights are summarized and the run
\* record is written) and every other domain that delivered data is
\* cleaned, has the training results of a run without the failing domain
\* in the report, and is summarized.
C1_FailureIsolated ==
    Returned =>
        \A f \in Failing : Failing = {f} =>
            /\ pipeline_results.has_insights
            /\ disk.reports # <<>>
            /\ \A d \in Domains \ {f} : ~IsEmpty(source[d]) =>
                  /\ d \in DOMAIN processed_data
                  /\ (d \in Trainable /\ TrainedAlone(d).results # <<>>) =>
                        /\ d \in DOMAIN pipeline_results.models_trained
                        /\ pipeline_results.models_trained[d] = TrainedAlone(d).results
                  /\ ~IsEmpty(ProcessedAlone(d).tbl) =>
                        d \in DOMAIN pipeline_results.insights

\* C2: the returned status is 'completed' whenever some domain produced a
\* usable table, and is not 'completed' when no domain produced one.
C2_StatusReflectsUsableOutput ==
    Returned =>
        /\ (\E d \in Domains : Usable(d)) => pipeline_results.status = "completed"
        /\ ~(\E d \in Domains : Usable(d)) => pipeline_results.status # "completed"

\* the run record holds an entry that marks the source as delivering no data
RecordedSkipped(d) ==
    /\ d \in DOMAIN pipeline_results.data_sources
    /\ pipeline_results.data_sources[d].records = 0

\* C3: a domain whose collector returns an empty table is never cleaned or
\* trained and is recorded in the run record as skipped; with the counts
\* domain empty and the market series trainable the run is 'completed' and
\* the market series is recorded as trained.
C3_EmptyDomainRecordedSkipped ==
    Returned =>
        /\ \A d \in Domains : IsEmpty(source[d]) =>
              /\ d \notin DOMAIN processed_data
              /\ d \notin DOMAIN model_results
              /\ RecordedSkipped(d)
        /\ (IsEmpty(source["covid"]) /\ TrainedAlone("stock").results # <<>>) =>
              /\ pipeline_results.status = "completed"
              /\ "stock" \in DOMAIN pipeline_results.models_trained

\* C4: when the run returns, every entry of the registry is in the bundle
\* on storage.
C4_TrainedModelsPersisted ==
    Returned =>
        \A name \in DOMAIN mlm["etl"].models :
            /\ BundlePath \in DOMAIN disk.bundles
            /\ name \in DOMAIN disk.bundles[BundlePath].models
            /\ disk.bundles[BundlePath].models[name] = mlm["etl"].models[name]

\* C5: the stages of a run occur in the order collect, clean/featurize,
\* train, persist bundle, summarize, write record; a stage starts only when
\* the previous one has handled all its domains; the bundle is written at
\* most once and only after every due trainer has been called.
C5_StagesInOrder ==
    /\ \A i, j \in DOMAIN events :
          i < j => StageRank(events[i].stage) <= StageRank(events[j].stage)
    /\ \A i \in StageEvents("process") :
          \A d \in Range(CollectOrder) :
              \E j \in 1..(i - 1) : events[j] = Event("collect", d)
    /\ \A i \in StageEvents("train") :
          \A d \in DOMAIN raw_data :
              \E j \in 1..(i - 1) : events[j] = Event("process", d)
    /\ \A i \in StageEvents("save") \cup StageEvents("insights") :
          \A d \in Range(TrainDue) :
              \E j \in 1..(i - 1) : events[j] = Event("train", d)
    /\ Cardinality(StageEvents("save")) <= 1
    /\ disk.bundles # EmptyDict => StageEvents("save") # {}
    /\ disk.reports # <<>> => StageEvents("insights") # {}

\* a complete run that trained all three domains and wrote the bundle
C5_Witness ==
    /\ Returned
    /\ Len(TrainDue) = 3
    /\ StageEvents("save") # {}
    /\ Len(disk.reports) = 1
    /\ DOMAIN mlm["etl"].models = ModelNames

\* C6: for every domain whose trainer was called, the run record holds the
\* domain's training metrics or a failure reason for it.
C6_MetricsOrFailureReason ==
    Returned =>
        \A d \in Trainable :
            (\E i \in DOMAIN events : events[i] = Event("train", d)) =>
                \/ d \in DOMAIN pipeline_results.models_trained
                \/ DomainRaises(d) /\ pipeline_results.errors # <<>>

----------------------------------------------------------------------------
(* MLModels.make_prediction (models/ml_models.py) and POST /predict        *)
(* (backend/main.py).                                                      *)

\* a cell of a request row: a number or a missing value (NaN)
Cell(v) == [nan |-> FALSE, v |-> v]

NaNCell == [nan |-> TRUE, v |-> 0]

\* pd.DataFrame([request.features]): one row, columns in the order of the
\* request's keys
Frame(cols, nans) ==
    [cols |-> cols,
     vals |-> [c \in Range(cols) |-> IF c \in nans THEN NaNCell ELSE Cell(MaxValue)]]

\* mean of a one-row column: its value, undefined when the value is missing
ColumnMean(cell) == cell

\* X.fillna(X.mean())
FillNa(cell, mean) == IF cell.nan THEN mean ELSE cell

\* a selection that keeps the column order of the request
PredictColumns_rowOrder(trained, columns) ==
    SelectSeq(columns, LAMBDA c : c \in Range(trained))

\* [col for col in metadata['features'] if col in features.columns]
PredictColumns(trained, columns) ==
    SelectSeq(trained, LAMBDA c : c \in Range(columns))

\* the exceptions an estimator's predict raises: the columns differ from the
\* ones it was fitted on, or a value is missing and the estimator does not
\* accept missing values (nan_ok, which depends on the estimator family and
\* the library version)
EstimatorRaises(model, X_cols, X_vals, nan_ok) ==
    \/ X_cols # model.features
    \/ ~nan_ok /\ \E c \in Range(X_cols) : X_vals[c].nan

Call(kind, exc, name, req, X_cols, X_vals) ==
    [kind |-> kind, exc |-> exc, name |-> name, request |-> req,
     X_cols |-> X_cols, X_vals |-> X_vals]

make_prediction(reg, model_name, features, nan_ok) ==
    IF model_name \notin DOMAIN reg.models
    THEN Call("raise", "ValueError", model_name, features, <<>>, EmptyDict)
    ELSE IF model_name \notin DOMAIN reg.model_metadata
    THEN Call("raise", "KeyError", model_name, features, <<>>, EmptyDict)
    ELSE IF "features" \notin DOMAIN reg.model_metadata[model_name]
    THEN Call("raise", "KeyError", model_name, features, <<>>, EmptyDict)
    ELSE LET model == reg.models[model_name]
             metadata == reg.model_metadata[model_name]
             available_features == PredictColumns(metadata.features, features.cols)
             X == [c \in Range(available_features) |->
                      FillNa(features.vals[c], ColumnMean(features.vals[c]))]
         IN  IF EstimatorRaises(model, available_features, X, nan_ok)
             THEN Call("raise", "ValueError", model_name, features, available_features, X)
             ELSE Call("ok", "", model_name, features, available_features, X)

NotFoundStatus == 404

ServerErrorStatus == 500

OkStatus == 200

\* POST /predict
predict_endpoint(reg, model_name, features, nan_ok) ==
    IF model_name \notin DOMAIN reg.models
    THEN [status |-> NotFoundStatus]
    ELSE IF make_prediction(reg, model_name, features, nan_ok).kind = "raise"
         THEN [status |-> ServerErrorStatus]
         ELSE [status |-> OkStatus]

----------------------------------------------------------------------------
(* Prediction requests against a trained registry.                         *)

FitsTree == <<FitOk(MaxScore, 0), FitOk(1, 1), FitFail>>

\* a processed table of the domain on which training succeeds
TrainTable(d, fit) ==
    process_one(d, RawTable(d, 3 * RowFloor(d), 0, 3, 4, fit)).tbl

\* 0: the domain is not trained; 1, 2: trained, with a different winner
TrainChoice(d, c, reg) ==
    IF c = 0 THEN reg
    ELSE train_model(d, TrainTable(d, IF c = 1 THEN FitsMixed ELSE FitsTree), reg).reg

\* the counts domain is trained with either winner, the others with one
TrainChoices(d) == IF d = "covid" THEN {1, 2} ELSE {1}

\* the registry after train_all_models
RegistryOf(choice) ==
    LET r1 == TrainChoice("covid", choice["covid"], NewMLModels)
        r2 == TrainChoice("stock", choice["stock"], r1)
    IN  TrainChoice("weather", choice["weather"], r2)

Reverse(s) == [i \in DOMAIN s |-> s[Len(s) + 1 - i]]

\* request rows built around a model's trained feature list: all features in
\* the trained order, in reverse order, without the first feature, with an
\* unknown column in front
RowShapes(f) ==
    {f, Reverse(f), Tail(f), <<"unknown_column">> \o f}

TrainedFeatures(d) == AvailableFeatures(FeatureCols(d), TrainTable(d, FitsMixed).cols)

\* every shape with all values present, and the in-order row with the value
\* of its second feature missing
RequestRows ==
    UNION {{Frame(cols, {}) : cols \in RowShapes(TrainedFeatures(d))}
           \cup {Frame(TrainedFeatures(d), {TrainedFeatures(d)[2]})} :
           d \in Trainable}

RequestNames == ModelNames \cup {"unknown_model"}

\* the run_full_pipeline variables of a process that only serves
IdleRun ==
    /\ source = [d \in Domains |-> EmptyTable]
    /\ pc = "idle"
    /\ idx = 1
    /\ raw_data = EmptyDict
    /\ processed_data = EmptyDict
    /\ model_results = EmptyDict
    /\ pipeline_results = [status |-> "completed", data_sources |-> EmptyDict,
                           models_trained |-> EmptyDict, errors |-> <<>>,
                           has_insights |-> FALSE, insights |-> EmptyDict]
    /\ events = <<>>
    /\ processor = NewDataProcessor
    /\ platform = NewPlatform

InitPredict ==
    /\ IdleRun
    /\ \E choice \in [Trainable -> 0..2] :
          /\ \A d \in Trainable : choice[d] \in {0} \cup TrainChoices(d)
          /\ mlm = [o \in {"etl", "api"} |->
                       IF o = "api" THEN RegistryOf(choice) ELSE NewMLModels]
    /\ disk = [bundles |-> EmptyDict, csv |-> {}, reports |-> <<>>]
    /\ last_call = [kind |-> "none"]
    /\ response = [status |-> 0]

\* a direct call of ml_models.make_prediction
Predict ==
    \E name \in RequestNames, row \in RequestRows, nan_ok \in BOOLEAN :
        /\ last_call' = make_prediction(mlm["api"], name, row, nan_ok)
        /\ response' = [status |-> 0]
        /\ UNCHANGED <<pipeVars, mlm, disk>>

\* a POST /predict request
Serve ==
    \E name \in RequestNames, row \in RequestRows, nan_ok \in BOOLEAN :
        /\ response' = predict_endpoint(mlm["api"], name, row, nan_ok)
        /\ last_call' = make_prediction(mlm["api"], name, row, nan_ok)
        /\ UNCHANGED <<pipeVars, mlm, disk>>

NextPredict == Predict \/ Serve

SpecPredict == InitPredict /\ [][NextPredict]_vars

----------------------------------------------------------------------------
(* Properties of make_prediction and POST /predict.                        *)

Predicted == last_call.kind \in {"ok", "raise"}

Registered(name) == name \in DOMAIN mlm["api"].models

\* the exception types the estimators and pandas raise on a bad request
GenericExceptions == {"ValueError", "KeyError", "TypeError"}

\* C7: a prediction for a name that is not in the registry raises a distinct
\* not-found condition, not one of the generic exception types; the endpoint
\* answers 404 exactly for unregistered names and 500 when the registry
\* raises for a registered one.
C7_ModelNotFoundDistinct ==
    /\ (Predicted /\ ~Registered(last_call.name)) =>
          /\ last_call.kind = "raise"
          /\ last_call.exc \notin GenericExceptions
    /\ (Predicted /\ response.status # 0) =>
          /\ response.status = NotFoundStatus <=> ~Registered(last_call.name)
          /\ (Registered(last_call.name) /\ last_call.kind = "raise") =>
                response.status = ServerErrorStatus

\* the request lacks a trained feature: the column is absent or its value
\* is missing
LacksFeature(name, req) ==
    \E c \in Range(mlm["api"].model_metadata[name].features) :
        c \notin Range(req.cols) \/ req.vals[c].nan

\* C8: a request for a registered model that lacks trained features returns
\* a prediction, and the estimator is given a value for every trained
\* feature (the substituted training-time mean for the lacking ones).
C8_MissingFeatureSubstituted ==
    (Predicted /\ Registered(last_call.name)
               /\ LacksFeature(last_call.name, last_call.request)) =>
        /\ last_call.kind = "ok"
        /\ \A c \in Range(mlm["api"].model_metadata[last_call.name].features) :
              /\ c \in Range(last_call.X_cols)
              /\ ~last_call.X_vals[c].nan

IndexOf(seq, c) == CHOOSE i \in DOMAIN seq : seq[i] = c

\* C9: the columns handed to the estimator are exactly the trained features
\* present in the request, in the relative order of the trained feature
\* list, whatever the column order of the request.
C9_ColumnsInTrainedOrder ==
    (Predicted /\ Registered(last_call.name)) =>
        LET trained == mlm["api"].model_metadata[last_call.name].features
            x == last_call.X_cols
        IN  /\ Range(x) = Range(trained) \cap Range(last_call.request.cols)
            /\ \A i, j \in DOMAIN x :
                  i < j => IndexOf(trained, x[i]) < IndexOf(trained, x[j])

\* a prediction was returned for a request whose columns came in the reverse
\* of the trained order
C9_Witness ==
    /\ last_call.kind = "ok"
    /\ Len(last_call.X_cols) >= 3
    /\ last_call.request.cols = Reverse(last_call.X_cols)
    /\ last_call.request.cols # last_call.X_cols

----------------------------------------------------------------------------
(* Training, saving and loading on two MLModels objects sharing storage.   *)

Objs == {"etl", "api"}

InitBundle ==
    /\ IdleRun
    /\ mlm = [o \in Objs |-> NewMLModels]
    /\ disk = [bundles |-> EmptyDict, csv |-> {}, reports |-> <<>>]
    /\ last_call = [kind |-> "none"]
    /\ response = [status |-> 0]

\* MLModels()
Construct(o) ==
    /\ mlm' = [mlm EXCEPT ![o] = NewMLModels]
    /\ last_call' = [kind |-> "init", obj |-> o]
    /\ UNCHANGED <<pipeVars, disk, response>>

\* a successful call of one train_* method
Train(o, d) ==
    \E c \in TrainChoices(d) :
        /\ mlm' = [mlm EXCEPT ![o] = TrainChoice(d, c, mlm[o])]
        /\ last_call' = [kind |-> "train", obj |-> o]
        /\ UNCHANGED <<pipeVars, disk, response>>

\* save_models(filepath)
Save(o) ==
    /\ disk' = [disk EXCEPT !.bundles = Put(@, BundlePath, save_models(mlm[o]))]
    /\ last_call' = [kind |-> "save", obj |-> o]
    /\ UNCHANGED <<pipeVars, mlm, response>>

\* load_models(filepath) of a bundle that exists
Load(o) ==
    /\ BundlePath \in DOMAIN disk.bundles
    /\ mlm' = [mlm EXCEPT ![o] = load_models(mlm[o], disk.bundles[BundlePath])]
    /\ last_call' = [kind |-> "load", obj |-> o, held |-> DOMAIN mlm[o].models]
    /\ UNCHANGED <<pipeVars, disk, response>>

NextBundle ==
    \E o \in Objs :
        \/ Construct(o)
        \/ \E d \in Trainable : Train(o, d)
        \/ Save(o)
        \/ Load(o)

SpecBundle == InitBundle /\ [][NextBundle]_vars

\* C10: when an object has just loaded the bundle that another object R
\* saved (and R is as it was saved), the loader holds exactly R's models,
\* metadata and feature-importance maps, and nothing else.
C10_SaveLoadRoundTrip ==
    last_call.kind = "load" =>
        \A r \in Objs :
            disk.bundles[BundlePath] = save_models(mlm[r]) =>
                /\ mlm[last_call.obj].models = mlm[r].models
                /\ mlm[last_call.obj].model_metadata = mlm[r].model_metadata
                /\ mlm[last_call.obj].feature_importance = mlm[r].feature_importance

\* the api object held a model the saved registry lacks, and loaded the
\* bundle of a non-empty etl registry with a feature-importance map
C10_Witness ==
    /\ last_call.kind = "load"
    /\ last_call.obj = "api"
    /\ disk.bundles[BundlePath] = save_models(mlm["etl"])
    /\ mlm["etl"].models # EmptyDict
    /\ mlm["etl"].feature_importance # EmptyDict
    /\ last_call.held \ DOMAIN mlm["etl"].models # {}
    /\ mlm["api"] = mlm["etl"]

----------------------------------------------------------------------------
(* Loading a bundle written by other code (models/ml_models.py,            *)
(* backend/main.py start-up).                                              *)

Sections == {"models", "metadata", "feature_importance"}

\* load_models on any unpickled dict: the three attributes are assigned one
\* after the other, and a missing key raises KeyError at its assignment
load_models_call(reg, model_data) ==
    IF "models" \notin DOMAIN model_data
    THEN [exc |-> "KeyError", reg |-> reg]
    ELSE IF "metadata" \notin DOMAIN model_data
    THEN [exc |-> "KeyError", reg |-> [reg EXCEPT !.models = model_data.models]]
    ELSE IF "feature_importance" \notin DOMAIN model_data
    THEN [exc |-> "KeyError",
          reg |-> [reg EXCEPT !.models = model_data.models,
                              !.model_metadata = model_data.metadata]]
    ELSE [exc |-> "", reg |-> load_models(reg, model_data)]

\* the registry of the current code after a full training run
CurrentRegistry == RegistryOf([d \in Trainable |-> IF d = "covid" THEN 2 ELSE 1])

\* a registry trained by code without the feature-creation step: the counts
\* model is fitted on the cleaning columns only
OlderRegistry ==
    train_model("covid",
                clean_domain("covid", RawTable("covid", 3 * CovidRowFloor, 0, 0, 0,
                                               FitsTree)).tbl,
                NewMLModels).reg

\* the bundle with only the sections in keep
KeepSections(bundle, keep) == [k \in keep |-> bundle[k]]

\* the bundle with metadata entries that carry no feature list
WithoutFeatureList(bundle) ==
    [bundle EXCEPT !.metadata =
        [n \in DOMAIN bundle.metadata |->
            [best_model |-> bundle.metadata[n].best_model,
             performance |-> bundle.metadata[n].performance]]]

\* the bundle files the models directory may hold
BundleFiles ==
    UNION {{KeepSections(save_models(r), keep) : keep \in SUBSET Sections}
           \cup {WithoutFeatureList(save_models(r))} :
           r \in {CurrentRegistry, OlderRegistry}}

\* the bundle does not have the schema the current code reads
SchemaMismatch(bundle) ==
    \/ ~(Sections \subseteq DOMAIN bundle)
    \/ \E n \in DOMAIN bundle.metadata : "features" \notin DOMAIN bundle.metadata[n]

InitLoad ==
    /\ IdleRun
    /\ \E r \in {NewMLModels, CurrentRegistry} :
          mlm = [o \in Objs |-> IF o = "api" THEN r ELSE NewMLModels]
    /\ \E b \in BundleFiles :
          disk = [bundles |-> Put(EmptyDict, BundlePath, b), csv |-> {}, reports |-> <<>>]
    /\ last_call = [kind |-> "none"]
    /\ response = [status |-> 0]

\* ml_models.load_models(latest bundle); at start-up an exception is logged
\* as a warning and the process goes on with the registry as the call left it
LoadBundle ==
    LET r == load_models_call(mlm["api"], disk.bundles[BundlePath])
    IN  /\ mlm' = [mlm EXCEPT !["api"] = r.reg]
        /\ last_call' = [kind |-> IF r.exc = "" THEN "loaded" ELSE "load_raise",
                         exc |-> r.exc, before |-> mlm["api"],
                         bundle |-> disk.bundles[BundlePath]]
        /\ response' = [status |-> 0]
        /\ UNCHANGED <<pipeVars, disk>>

\* a POST /predict request with all the current features of one domain
ServeLoaded ==
    \E name \in ModelNames, d \in Trainable :
        LET row == Frame(TrainedFeatures(d), {})
        IN  /\ response' = predict_endpoint(mlm["api"], name, row, FALSE)
            /\ last_call' = make_prediction(mlm["api"], name, row, FALSE)
            /\ UNCHANGED <<pipeVars, mlm, disk>>

NextLoad == LoadBundle \/ ServeLoaded

SpecLoad == InitLoad /\ [][NextLoad]_vars

\* C11: loading a bundle whose schema differs from what the code reads
\* raises, and the registry is as it was before the load.
C11_MismatchedBundleRejected ==
    (last_call.kind \in {"loaded", "load_raise"} /\ SchemaMismatch(last_call.bundle)) =>
        /\ last_call.kind = "load_raise"
        /\ mlm["api"] = last_call.before

----------------------------------------------------------------------------
(* Calls of the train_* methods on one MLModels object.                    *)

\* how one candidate may fare: it raises, or it reaches a held-out score
FitOutcomes == {FitFail, FitOk(1, 1), FitOk(MaxScore, 0)}

\* every combination of outcomes of the three candidates
AllFits == [1..3 -> FitOutcomes]

\* two classifiers of equal accuracy whose classification reports differ: the
\* second component of a classifier's fit stands for its report, as the
\* shortfall of the report's macro-averaged F1
FitsTied == <<FitOk(1, 1), FitOk(1, 0), FitFail>>

\* numbers of source records around the row floors of the trainers: below
\* the floor, at the floor, and around the number that leaves the floor
\* after the undefined rows and the last row are dropped
SuppliedRows(d) ==
    IF d = "covid" THEN {CovidRowFloor - 1, CovidRowFloor, CovidRowFloor + CovidLag,
                         CovidRowFloor + CovidLag + 1, 3 * CovidRowFloor}
    ELSE IF d = "stock" THEN
        {StockRowFloor, StockRowFloor + VolatilityWindow,
         2 * StockRowFloor + VolatilityWindow - 1,
         2 * StockRowFloor + VolatilityWindow, 3 * StockRowFloor}
    ELSE {WeatherRowFloor - 1, WeatherRowFloor, 3 * WeatherRowFloor}

\* the table the pipeline hands to the trainer for n source records
PipelineTable(d, n, fit) == process_one(d, RawTable(d, n, 0, 2, 4, fit)).tbl

\* a processed csv that kept only the target column and two feature columns
NarrowTable(d) ==
    [PipelineTable(d, 3 * RowFloor(d), FitsMixed) EXCEPT
        !.cols = {TargetSource(d), FeatureCols(d)[2], FeatureCols(d)[3]}]

\* a processed weather table in which one temperature class has one row
RareClassTable ==
    process_one("weather", RawTable("weather", 4 * WeatherRowFloor, 0, 3, 1, FitsMixed)).tbl

\* the tables of the training calls: every combination of candidate
\* outcomes for the counts domain, and for every domain every supplied
\* length and the narrow table with candidates that fit
TrainInputs(d) ==
    {PipelineTable(d, 3 * RowFloor(d), fit) :
        fit \in IF d = "covid" THEN AllFits
                ELSE IF d = "weather" THEN {FitsMixed, FitsTied}
                ELSE {FitsMixed}}
    \cup {PipelineTable(d, n, FitsMixed) : n \in SuppliedRows(d)}
    \cup {NarrowTable(d)}
    \cup (IF d = "weather" THEN {RareClassTable} ELSE {})

InitTrain ==
    /\ IdleRun
    /\ mlm = [o \in Objs |-> NewMLModels]
    /\ disk = [bundles |-> EmptyDict, csv |-> {}, reports |-> <<>>]
    /\ last_call = [kind |-> "none"]
    /\ response = [status |-> 0]

\* ml_models.train_<domain>_model(df)
TrainCall ==
    \E d \in Trainable :
        \E df \in TrainInputs(d) :
            LET r == train_model(d, df, mlm["etl"])
            IN  /\ mlm' = [mlm EXCEPT !["etl"] = r.reg]
                /\ last_call' = [kind |-> "train", domain |-> d, df |-> df,
                                 exc |-> r.exc, results |-> r.results]
                /\ UNCHANGED <<pipeVars, disk, response>>

\* a candidate that fits but whose held-out metric comes out undefined
FitNaN == [ok |-> TRUE, score |-> NaNScore, rmse |-> 0]

\* the combinations of outcomes in which a candidate's metric is undefined
NaNFits == {<<FitNaN, FitOk(1, 1), FitOk(MaxScore, 0)>>,
            <<FitOk(1, 1), FitNaN, FitFail>>,
            <<FitNaN, FitNaN, FitNaN>>}

\* ml_models.train_<domain>_model(df) on a table on which the evaluation of
\* some candidate yields an undefined metric
TrainCallUndefined ==
    \E d \in {"covid", "stock"} :
        \E fit \in NaNFits :
            LET df == PipelineTable(d, 3 * RowFloor(d), fit)
                r == train_model(d, df, mlm["etl"])
            IN  /\ mlm' = [mlm EXCEPT !["etl"] = r.reg]
                /\ last_call' = [kind |-> "train", domain |-> d, df |-> df,
                                 exc |-> r.exc, results |-> r.results]
                /\ UNCHANGED <<pipeVars, disk, response>>

NextTrain == TrainCall

NextTrainUndefined == TrainCall \/ TrainCallUndefined

\* training calls whose candidates may come out with undefined metrics
SpecTrainUndefined == InitTrain /\ [][NextTrainUndefined]_vars

SpecTrain == InitTrain /\ [][NextTrain]_vars

\* the last call was a training call that stored a model
TrainedOk == last_call.kind = "train" /\ last_call.results # <<>>

\* the candidates of the last training call whose fit did not raise
Survivors == {i \in 1..3 : last_call.df.fit[i].ok}

\* C12: after a successful training call the stored estimator is a
\* surviving candidate whose primary metric is at least that of every other
\* surviving candidate, and the recorded performance holds the metrics of
\* exactly the surviving candidates.
C12_BestSurvivorStored ==
    TrainedOk =>
        LET d == last_call.domain
            entry == mlm["etl"].models[ModelName(d)]
            perf == mlm["etl"].model_metadata[ModelName(d)].performance
        IN  /\ \E i \in Survivors :
                  /\ Candidates(d)[i] = entry.kind
                  /\ \A j \in Survivors :
                        last_call.df.fit[j].score <= last_call.df.fit[i].score
            /\ {[name |-> r.name, score |-> r.score] : r \in Range(perf)}
                  = {[name |-> Candidates(d)[i], score |-> last_call.df.fit[i].score] :
                        i \in Survivors}
            /\ Len(perf) = Cardinality(Survivors)

\* the first candidate won although a later one survived with a lower score
C12_Witness ==
    /\ TrainedOk
    /\ mlm["etl"].models[ModelName(last_call.domain)].kind
          = Candidates(last_call.domain)[1]
    /\ Cardinality(Survivors) = 2
    /\ \E j \in Survivors : last_call.df.fit[j].score < last_call.df.fit[1].score


\* the table is below a floor of the trainer of d: too few supplied rows,
\* too few rows once the target is built, or too few feature columns
Insufficient(d, df) ==
    \/ df.rows < RowFloor(d)
    \/ ModelRows(d, df) < RowFloor(d)
    \/ Cardinality(Range(FeatureCols(d)) \cap df.cols) < FeatureFloor(d)

\* C13: a training call on a table below the row floor (as supplied or after
\* the target is built) or below the feature floor raises nothing, returns
\* the empty result without a fitted candidate in it, and leaves models,
\* metadata and feature importances as they were.
C13_InsufficientDataKeepsRegistry ==
    [][(last_call'.kind = "train" /\ Insufficient(last_call'.domain, last_call'.df)) =>
          /\ last_call'.exc = ""
          /\ last_call'.results = <<>>
          /\ mlm' = mlm]_vars

\* a table with enough supplied rows but too few after the target was built
\* reached a trainer that already holds a model of the domain
C13_Witness ==
    /\ last_call.kind = "train"
    /\ last_call.df.rows >= RowFloor(last_call.domain)
    /\ ModelRows(last_call.domain, last_call.df) < RowFloor(last_call.domain)
    /\ ModelName(last_call.domain) \in DOMAIN mlm["etl"].models
    /\ \E i \in Survivors : TRUE


\* C14: a counts series that the pipeline cleaned and featurized fails
\* training for lack of data only when fewer than 10 rows were supplied:
\* every such series of at least 10 rows whose candidates can be fitted
\* reaches the candidate loop and trains successfully.
C14_FloorCountsSuppliedRows ==
    (/\ last_call.kind = "train"
     /\ last_call.domain = "covid"
     /\ \E n \in SuppliedRows("covid") :
           /\ n >= CovidRowFloor
           /\ last_call.df = PipelineTable("covid", n, FitsMixed))
        => last_call.exc = "" /\ last_call.results # <<>>


\* C15: for every registered name the estimator, the metadata and the
\* feature-importance map describe the same, most recent successful
\* training: the metadata lists the stored estimator's features, and an
\* importance map is held exactly when that estimator exposes importances,
\* over that estimator's features.
C15_EntryDescribesOneTraining ==
    \A name \in DOMAIN mlm["etl"].models :
        LET est == mlm["etl"].models[name]
        IN  /\ name \in DOMAIN mlm["etl"].model_metadata
            /\ mlm["etl"].model_metadata[name].features = est.features
            /\ (name \in DOMAIN mlm["etl"].feature_importance) <=> HasImportances(est.kind)
            /\ name \in DOMAIN mlm["etl"].feature_importance
                  => mlm["etl"].feature_importance[name] = est.features


----------------------------------------------------------------------------
(* The run record of run_full_pipeline.                                    *)

\* C16: when run_full_pipeline returns, on the success path and on the
\* failure path alike, exactly one run record has been written, and it is the
\* record that is returned.
C16_OneRunRecordPersisted ==
    Returned =>
        /\ Len(disk.reports) = 1
        /\ disk.reports[1] = pipeline_results


----------------------------------------------------------------------------
(* Calls of the DataProcessor methods on tables and on rows with values.   *)

\* a table of the collector's columns and no rows
NoRowsTable(d) == RawTable(d, 0, 0, 0, 0, FitsNone)

\* the tables handed to cleaning and feature creation
\* a column that a rule of the domain's cleaning reads
RuleColumn(d) ==
    IF d = "covid" THEN "recovered"
    ELSE IF d = "weather" THEN "datetime"
    ELSE IF d = "stock" THEN "daily_return"
    ELSE "population"

\* a collected table that lacks the rule column
MissingColumnTable(d) ==
    [RawTable(d, 2 * StockRowFloor, 0, 2, 4, FitsMixed) EXCEPT
        !.cols = @ \ {RuleColumn(d)}]

ProcessInputs(d) == SourceTables(d) \cup {NoRowsTable(d), MissingColumnTable(d)}

InitProcessor ==
    /\ IdleRun
    /\ mlm = [o \in Objs |-> NewMLModels]
    /\ disk = [bundles |-> EmptyDict, csv |-> {}, reports |-> <<>>]
    /\ last_call = [kind |-> "none"]
    /\ response = [status |-> 0]

\* processor.create_features(processor.clean_<domain>_data(df), domain)
CleanAndFeaturize ==
    \E d \in Domains :
        \E df \in ProcessInputs(d) :
            LET r == process_one(d, df)
            IN  /\ last_call' = [kind |-> "process", domain |-> d, df |-> df,
                                 exc |-> r.exc, tbl |-> r.tbl]
                /\ processor' = clean_effect(processor, d, df)
                /\ UNCHANGED <<runVars, platform, mlm, disk, response>>

\* largest reported count in a row of the counts series
MaxCount == 2

\* a reported count: missing, negative (a data error), or a count
CountCells == {NaNCell, Cell(-1)} \cup {Cell(v) : v \in 0..MaxCount}

\* the rows of a collected counts table, by their cumulative counts
CountRows == [cases : CountCells, deaths : CountCells, recovered : CountCells]

\* fillna(0) on one cell
FillZero(c) == IF c.nan THEN Cell(0) ELSE c

\* clip(lower=0) on one cell
ClipLower(c) == Cell(Max(c.v, 0))

\* np.where(cases > 0, part / cases * 100, 0), kept as an exact fraction
Rate(part, cases) ==
    IF cases > 0 THEN [num |-> part * 100, den |-> cases] ELSE [num |-> 0, den |-> 1]

\* clean_covid_data on the cells of one row
clean_covid_row(r) ==
    LET cases == ClipLower(FillZero(r.cases)).v
        deaths == ClipLower(FillZero(r.deaths)).v
        recovered == ClipLower(FillZero(r.recovered)).v
    IN  [cases |-> cases, deaths |-> deaths, recovered |-> recovered,
         case_fatality_rate |-> Rate(deaths, cases),
         recovery_rate |-> Rate(recovered, cases)]

\* clean_covid_data on the rows of a table; the rates are computed row by row
clean_covid_rows(rows) == [i \in DOMAIN rows |-> clean_covid_row(rows[i])]

\* processor.clean_covid_data(df) on a table with values
CleanCovidRows ==
    \E r \in CountRows :
        /\ last_call' = [kind |-> "clean_covid", df |-> <<r>>,
                         out |-> clean_covid_rows(<<r>>)]
        /\ UNCHANGED <<pipeVars, mlm, disk, response>>

\* highest close of a market series
MaxPrice == 4

\* number of samples after the rows that the volatility window leaves undefined
MaxTail == 3

Prices == 1..MaxPrice

Abs(x) == IF x < 0 THEN -x ELSE x

\* the close series of the source: a flat stretch as long as the volatility
\* window, then up to MaxTail samples
CloseSeries ==
    {[i \in 1..VolatilityWindow |-> p] \o tail :
        p \in Prices, tail \in UNION {[1..n -> Prices] : n \in 1..MaxTail}}

\* close.pct_change() at row i, kept as an exact fraction; undefined on the
\* first row
pct_change(closes, i) ==
    IF i = 1 THEN [nan |-> TRUE, num |-> 0, den |-> 1]
    ELSE [nan |-> FALSE, num |-> closes[i] - closes[i - 1], den |-> closes[i - 1]]

\* the rows collect_stock_data builds: sorted by date, daily_return from the
\* preceding close, volatility undefined until the window holds
\* VolatilityWindow returns
collect_stock_rows(closes) ==
    [i \in DOMAIN closes |->
        [date |-> i, close |-> closes[i],
         daily_return |-> pct_change(closes, i),
         volatility_nan |-> i <= VolatilityWindow]]

\* clean_stock_data on rows: dropna(), then keep daily_return.abs() < 0.5
clean_stock_rows(rows) ==
    SelectSeq(SelectSeq(rows, LAMBDA r : ~r.daily_return.nan /\ ~r.volatility_nan),
              LAMBDA r : 2 * Abs(r.daily_return.num) < r.daily_return.den)

\* processor.clean_stock_data(collector.collect_stock_data())
CleanStockRows ==
    \E closes \in CloseSeries :
        /\ last_call' = [kind |-> "clean_stock", df |-> collect_stock_rows(closes),
                         out |-> clean_stock_rows(collect_stock_rows(closes))]
        /\ UNCHANGED <<pipeVars, mlm, disk, response>>

\* highest temperature reading of a weather table with values
MaxTemp == 1

\* highest humidity reading of a weather table with values
MaxHumidity == 1

\* number of rows of a weather table with values
WeatherRows == 5

\* number of distinct description labels, numbered in their sort order
MaxLabel == 2

WeatherReadings == [temperature : 0..MaxTemp, humidity : 0..MaxHumidity]

ReadingKey(r) == r.temperature * (MaxHumidity + 1) + r.humidity

\* the weather tables without a description column, listed once per bag of
\* rows (no step of the cleaning looks at the order of the rows), and the
\* tables of one or two equal readings with a description label on each row
WeatherTables ==
    {[described |-> FALSE, rows |-> s] :
        s \in {t \in [1..WeatherRows -> WeatherReadings] :
                  \A i \in 1..(WeatherRows - 1) : ReadingKey(t[i]) <= ReadingKey(t[i + 1])}}
    \cup
    {[described |-> TRUE,
      rows |-> [i \in DOMAIN ls |-> [temperature |-> 0, humidity |-> 0,
                                     description |-> ls[i]]]] :
        ls \in [1..1 -> 1..MaxLabel] \cup [1..2 -> 1..MaxLabel]}

\* the values of a column in ascending order
RECURSIVE SortValues(_)
SortValues(xs) ==
    IF xs = <<>> THEN <<>>
    ELSE LET m == CHOOSE i \in DOMAIN xs : \A j \in DOMAIN xs : xs[i] <= xs[j]
         IN  <<xs[m]>> \o SortValues([j \in 1..(Len(xs) - 1) |->
                                          IF j < m THEN xs[j] ELSE xs[j + 1]])

\* four times Series.quantile(k / 4) of the ascending values xs, by linear
\* interpolation between the two nearest ranks
Quantile4(xs, k) ==
    LET pos == (Len(xs) - 1) * k
        lo == pos \div 4
        r == pos % 4
    IN  IF r = 0 THEN 4 * xs[lo + 1]
        ELSE 4 * xs[lo + 1] + r * (xs[lo + 2] - xs[lo + 1])

\* eight times the fences Q1 - 1.5 * IQR and Q3 + 1.5 * IQR of column col
Fences(rows, col) ==
    LET xs == SortValues([i \in DOMAIN rows |-> rows[i][col]])
        q1 == Quantile4(xs, 1)
        q3 == Quantile4(xs, 3)
    IN  [lower |-> 2 * q1 - 3 * (q3 - q1), upper |-> 2 * q3 + 3 * (q3 - q1)]

Within(r, col, fences) == 8 * r[col] >= fences.lower /\ 8 * r[col] <= fences.upper

\* one pass of the loop over numeric_cols: the rows within the fences of col
iqr_filter(rows, col) ==
    IF rows = <<>> THEN <<>>
    ELSE LET fences == Fences(rows, col)
         IN  SelectSeq(rows, LAMBDA r : Within(r, col, fences))

\* the loop over numeric_cols: each column's fences are taken from the rows
\* that the columns before it have left
RECURSIVE FilterCols(_, _, _)
FilterCols(rows, cols, i) ==
    IF i > Len(cols) THEN rows
    ELSE FilterCols(iqr_filter(rows, cols[i]), cols, i + 1)

\* the numeric columns present in the weather tables with values
NumericCols == <<"temperature", "humidity">>

\* an encoder that keeps the classes of the encoder stored by an earlier call
fit_label_encoder_reuse(proc, labels) ==
    IF "weather_description" \in DOMAIN proc.label_encoders
    THEN proc.label_encoders["weather_description"]
    ELSE Sorted(labels)

\* le = LabelEncoder(); le.fit_transform(df_clean['description']): classes_
fit_label_encoder(proc, labels) == Sorted(labels)

\* LabelEncoder.transform of one label: its rank among the classes
Encode(classes, label) == Cardinality({c \in Range(classes) : c < label})

\* clean_weather_data on a table with values (none of them missing): the
\* output rows, the processor after the call, and the caller's table after it
clean_weather_rows(proc, df) ==
    IF df.rows = <<>> THEN [out |-> df.rows, proc |-> proc, df_after |-> df]
    ELSE
    LET kept == FilterCols(df.rows, NumericCols, 1)
        classes == fit_label_encoder(proc, {kept[i].description : i \in DOMAIN kept})
    IN  IF ~df.described
        THEN [out |-> [i \in DOMAIN kept |->
                          [temperature |-> kept[i].temperature,
                           humidity |-> kept[i].humidity,
                           feels_like |-> kept[i].temperature]],
              proc |-> proc, df_after |-> df]
        ELSE [out |-> [i \in DOMAIN kept |->
                          [temperature |-> kept[i].temperature,
                           humidity |-> kept[i].humidity,
                           feels_like |-> kept[i].temperature,
                           description |-> kept[i].description,
                           weather_code |-> Encode(classes, kept[i].description)]],
              proc |-> [proc EXCEPT !.label_encoders =
                           Put(@, "weather_description", classes)],
              df_after |-> df]

\* processor.clean_weather_data(df) on a table with values
CleanWeatherRows ==
    \E df \in WeatherTables :
        LET r == clean_weather_rows(processor, df)
        IN  /\ last_call' = [kind |-> "clean_weather", df |-> df, out |-> r.out,
                             df_after |-> r.df_after,
                             seen |-> processor.label_encoders]
            /\ processor' = r.proc
            /\ UNCHANGED <<runVars, platform, mlm, disk, response>>

NextWeather == CleanWeatherRows

\* one DataProcessor cleaning weather tables with values, one after another
SpecWeather == InitProcessor /\ [][NextWeather]_vars

NextProcessor == CleanAndFeaturize \/ CleanCovidRows \/ CleanStockRows

SpecProcessor == InitProcessor /\ [][NextProcessor]_vars

\* C17: for every domain, cleaning followed by feature creation on an empty
\* input table raises no error and returns an empty table.
C17_EmptyInEmptyOut ==
    (last_call.kind = "process" /\ IsEmpty(last_call.df)) =>
        /\ last_call.exc = ""
        /\ IsEmpty(last_call.tbl)

\* a rate lies in the closed range [0, 100]
InPercentRange(rate) == 0 <= rate.num /\ rate.num <= 100 * rate.den

\* C18: in every row of clean_covid_data's output case_fatality_rate and
\* recovery_rate lie in [0, 100], and both are exactly 0 when the row's cases
\* value is 0.
C18_RatesWithinPercentRange ==
    last_call.kind = "clean_covid" =>
        \A i \in DOMAIN last_call.out :
            LET row == last_call.out[i]
            IN  /\ InPercentRange(row.case_fatality_rate)
                /\ InPercentRange(row.recovery_rate)
                /\ row.cases = 0 =>
                      row.case_fatality_rate.num = 0 /\ row.recovery_rate.num = 0

\* C19: in clean_stock_data's output every row's close differs from the
\* close of the row before it in the output by at most 50% of that close.
C19_SurvivingReturnsBounded ==
    last_call.kind = "clean_stock" =>
        \A k \in 1..(Len(last_call.out) - 1) :
            2 * Abs(last_call.out[k + 1].close - last_call.out[k].close)
                <= last_call.out[k].close

\* C20: clean_stock_data drops exactly the rows whose absolute return
\* exceeds 0.5: a row with no return or with an absolute return of at most
\* 0.5, the value 0.5 included, is kept.
C20_DropsExactlyLargeMoves ==
    last_call.kind = "clean_stock" =>
        last_call.out =
            SelectSeq(last_call.df,
                      LAMBDA r : \/ r.daily_return.nan
                                 \/ 2 * Abs(r.daily_return.num) <= r.daily_return.den)


Reading(r) == [temperature |-> r.temperature, humidity |-> r.humidity]

\* C26: the rows clean_weather_data keeps are exactly the rows that lie
\* within the fences of every checked column, each column's fences being
\* computed from the whole table.
C26_FencesFromWholeTable ==
    (last_call.kind = "clean_weather" /\ last_call.df.rows # <<>>) =>
        LET rows == last_call.df.rows
            inside == SelectSeq(rows, LAMBDA r :
                          \A i \in DOMAIN NumericCols :
                              Within(r, NumericCols[i], Fences(rows, NumericCols[i])))
        IN  [i \in DOMAIN last_call.out |-> Reading(last_call.out[i])]
              = [i \in DOMAIN inside |-> Reading(inside[i])]


\* C22: among the surviving candidates with the highest primary metric the
\* stored estimator is one with the best secondary metric (lowest RMSE, or
\* highest macro-averaged F1), whatever the order of training.
C22_TieBrokenBySecondaryMetric ==
    TrainedOk =>
        LET d == last_call.domain
            fit == last_call.df.fit
            top == {i \in Survivors : \A j \in Survivors : fit[j].score <= fit[i].score}
        IN  \E i \in top :
                /\ Candidates(d)[i] = mlm["etl"].models[ModelName(d)].kind
                /\ \A j \in top : fit[i].rmse <= fit[j].rmse


\* the table passes the floors and the split, so that the call reaches the
\* loop over the candidates
ReachesCandidates(d, df) ==
    /\ ~Insufficient(d, df)
    /\ TargetSource(d) \in df.cols
    /\ ~(d = "weather" /\ StratifyRaises(df, ModelRows(d, df)))

\* C23: in a training call that reaches the candidates, a candidate that
\* raises is left out of the selection and of the recorded metrics while the
\* others are still fitted; the call stores a model whenever a candidate
\* survives, and when none survives it returns nothing and leaves the
\* registry as it was.
C23_FailedCandidateExcluded ==
    [][(last_call'.kind = "train"
        /\ ReachesCandidates(last_call'.domain, last_call'.df)) =>
          LET d == last_call'.domain
              fit == last_call'.df.fit
              alive == {i \in 1..3 : fit[i].ok}
          IN  /\ last_call'.exc = ""
              /\ {r.name : r \in Range(last_call'.results)}
                    = {Candidates(d)[i] : i \in alive}
              /\ alive = {} => mlm' = mlm
              /\ alive # {} =>
                    \E i \in alive :
                        mlm'["etl"].models[ModelName(d)].kind = Candidates(d)[i]]_vars

\* the first candidate raised and a later one was stored
C23_Witness ==
    /\ TrainedOk
    /\ ~last_call.df.fit[1].ok
    /\ mlm["etl"].models[ModelName(last_call.domain)].kind
          # Candidates(last_call.domain)[1]


\* C24: on every table that passes the row and feature floors of the weather
\* trainer the split succeeds, so that the call does not raise, also when a
\* class is too rare to appear in both partitions.
C24_SplitNeverRaises ==
    (/\ last_call.kind = "train"
     /\ last_call.domain = "weather"
     /\ ~Insufficient("weather", last_call.df)
     /\ TargetSource("weather") \in last_call.df.cols)
        => last_call.exc = ""


\* C25: when a column that a cleaning or feature rule needs is absent from a
\* non-empty input table, the call raises nothing and returns the table with
\* the results of the other rules.
C25_MissingColumnSkipsRule ==
    (/\ last_call.kind = "process"
     /\ ~IsEmpty(last_call.df)
     /\ RuleColumn(last_call.domain) \notin last_call.df.cols)
        => /\ last_call.exc = ""
           /\ last_call.df.cols \subseteq last_call.tbl.cols


\* C27: after a successful training call the candidate named as best_model
\* in the entry's metadata is the candidate whose estimator is stored, and
\* the performance recorded under that name is the highest primary metric
\* recorded, also when candidates tie or a candidate's metric is undefined.
C27_BestModelNamesStoredEstimator ==
    TrainedOk =>
        LET name == ModelName(last_call.domain)
            meta == mlm["etl"].model_metadata[name]
        IN  /\ meta.best_model = mlm["etl"].models[name].kind
            /\ \E r \in Range(meta.performance) :
                  /\ r.name = meta.best_model
                  /\ \A q \in Range(meta.performance) : q.score <= r.score


----------------------------------------------------------------------------
(* The registry of an MLModels object over its whole life: training calls  *)
(* that succeed, fail or raise, predictions, summaries, saves and loads.   *)

\* the trainers called: the counts forecast and the weather classifier
RegistryDomains == {"covid", "weather"}

\* the tables a training call is given: for the counts forecast two on which
\* different candidates win and one on which no candidate fits, for the
\* weather classifier a good one and one with a single-member class
RegistryTables(d) ==
    IF d = "covid"
    THEN {TrainTable(d, FitsMixed), TrainTable(d, FitsTree), TrainTable(d, FitsNone)}
    ELSE {TrainTable(d, FitsMixed), RareClassTable}

\* one train_* call on an object, whatever its outcome
TrainOn(o) ==
    \E d \in RegistryDomains :
        \E df \in RegistryTables(d) :
            LET r == train_model(d, df, mlm[o])
            IN  /\ mlm' = [mlm EXCEPT ![o] = r.reg]
                /\ last_call' = [kind |-> "train", obj |-> o, exc |-> r.exc]
                /\ UNCHANGED <<pipeVars, disk, response>>

\* load_models(filepath) when nothing was saved: joblib.load raises before
\* any attribute is rebound
LoadAbsent(o) ==
    /\ BundlePath \notin DOMAIN disk.bundles
    /\ last_call' = [kind |-> "load_raise", obj |-> o]
    /\ UNCHANGED <<pipeVars, mlm, disk, response>>

\* get_model_summary()
Summarize(o) ==
    /\ last_call' = [kind |-> "summary", obj |-> o,
                     summary |-> get_model_summary(mlm[o])]
    /\ UNCHANGED <<pipeVars, mlm, disk, response>>

\* make_prediction(model_name, features) with a full row of the features of
\* the counts forecast
PredictWith(o) ==
    \E name \in RequestNames :
        /\ last_call' = [kind |-> "predict", obj |-> o,
                         call |-> make_prediction(mlm[o], name,
                                                  Frame(TrainedFeatures("covid"), {}), TRUE)]
        /\ UNCHANGED <<pipeVars, mlm, disk, response>>

NextRegistry ==
    \E o \in Objs :
        \/ Construct(o)
        \/ TrainOn(o)
        \/ Save(o)
        \/ Load(o)
        \/ LoadAbsent(o)
        \/ Summarize(o)
        \/ PredictWith(o)

SpecRegistry == InitBundle /\ [][NextRegistry]_vars

\* C28: in every MLModels object the models map and the metadata map have
\* the same names and every name with a feature-importance map is one of
\* them; so a summary reports as many models as it has entries, and a
\* prediction never fails on a missing metadata entry.
C28_RegistryMapsAgree ==
    /\ \A o \in Objs :
          /\ DOMAIN mlm[o].models = DOMAIN mlm[o].model_metadata
          /\ DOMAIN mlm[o].feature_importance \subseteq DOMAIN mlm[o].models
    /\ last_call.kind = "summary" =>
          last_call.summary.total_models = Cardinality(DOMAIN last_call.summary.models)
    /\ last_call.kind = "predict" => last_call.call.exc # "KeyError"

\* an object that loaded what the other saved, retrained one of its entries
\* and then served a prediction from an entry that came with the bundle
C28_Witness ==
    /\ last_call.kind = "predict"
    /\ last_call.call.kind = "ok"
    /\ BundlePath \in DOMAIN disk.bundles
    /\ Cardinality(DOMAIN mlm[last_call.obj].models) >= 2
    /\ mlm[last_call.obj] # load_models(mlm[last_call.obj], disk.bundles[BundlePath])
    /\ DOMAIN disk.bundles[BundlePath].models = DOMAIN mlm[last_call.obj].models
    /\ DOMAIN mlm[last_call.obj].feature_importance # DOMAIN mlm[last_call.obj].models


----------------------------------------------------------------------------
(* run_model_training_only (etl/main.py): training from the processed csv  *)
(* files found in the data directory.                                      *)

MaxDate == 2

\* the sources whose processed files are in the directory
FiledSources == {"covid", "stock"}

\* a file name as its parts: processed_<source>_<date>.csv, raw_<source>_<date>.csv
DataFiles ==
    {<<"processed", d, k>> : d \in FiledSources, k \in 1..MaxDate}
    \cup {<<"raw", "covid", MaxDate>>}

\* the table saved on a date: later dates hold more rows, and the candidates
\* fare differently on them
FileTable(d, k) ==
    PipelineTable(d, 3 * RowFloor(d) + k, IF k = 1 THEN FitsTree ELSE FitsMixed)

\* filename.replace('processed_', '').replace('.csv', '').split('_')[0]
SourceOfFile(f) == f[2]

\* train_all_models: the trainers of the sources present, in the fixed order
\* of the method; an exception of a trainer leaves the method
RECURSIVE train_all_models(_, _, _, _)
train_all_models(data, i, reg, results) ==
    IF i > Len(TrainOrder) THEN [exc |-> "", reg |-> reg, results |-> results]
    ELSE LET d == TrainOrder[i]
         IN  IF d \notin DOMAIN data
             THEN train_all_models(data, i + 1, reg, results)
             ELSE LET r == train_model(d, data[d], reg)
                  IN  IF r.exc # ""
                      THEN [exc |-> r.exc, reg |-> r.reg, results |-> results]
                      ELSE train_all_models(data, i + 1, r.reg, Put(results, d, r.results))

InitTrainOnly ==
    /\ source = [d \in Domains |-> EmptyTable]
    /\ pc = "listdir"
    /\ idx = 1
    /\ raw_data = EmptyDict
    /\ processed_data = EmptyDict
    /\ model_results = EmptyDict
    /\ pipeline_results = [status |-> "completed", data_sources |-> EmptyDict,
                           models_trained |-> EmptyDict, errors |-> <<>>,
                           has_insights |-> FALSE, insights |-> EmptyDict]
    /\ events = <<>>
    /\ processor = NewDataProcessor
    /\ platform = NewPlatform
    /\ mlm = [o \in Objs |-> NewMLModels]
    /\ disk \in {[bundles |-> EmptyDict, csv |-> files, reports |-> <<>>] :
                    files \in SUBSET DataFiles}
    /\ last_call = [kind |-> "none"]
    /\ response = [status |-> 0]

\* the call begins: nothing of the directory has been listed yet
ListDir ==
    /\ pc = "listdir"
    /\ last_call' = [kind |-> "listdir", listing |-> <<>>]
    /\ pc' = "load"
    /\ idx' = 1
    /\ UNCHANGED <<platform, processor, source, raw_data, processed_data, model_results,
                   pipeline_results, events, mlm, disk, response>>

\* one pass of the loop over os.listdir(data_dir), whose next entry is any
\* file not listed yet: a processed csv is read and put under its source name
LoadFile ==
    /\ pc = "load"
    /\ \E f \in disk.csv \ Range(last_call.listing) :
          /\ last_call' = [last_call EXCEPT !.listing = Append(@, f)]
          /\ processed_data' =
                 IF f[1] = "processed"
                 THEN Put(processed_data, SourceOfFile(f), FileTable(f[2], f[3]))
                 ELSE processed_data
    /\ idx' = idx + 1
    /\ UNCHANGED <<platform, processor, source, pc, raw_data, model_results,
                   pipeline_results, events, mlm, disk, response>>

\* after the loop: fail without data, else train, save and return
TrainLoaded ==
    /\ pc = "load"
    /\ Range(last_call.listing) = disk.csv
    /\ pc' = "done"
    /\ IF processed_data = EmptyDict
       THEN /\ last_call' = [kind |-> "trained_only", listing |-> last_call.listing,
                             status |-> "failed", models_trained |-> EmptyDict]
            /\ UNCHANGED <<mlm, disk>>
       ELSE LET r == train_all_models(processed_data, 1, mlm["etl"], EmptyDict)
            IN  /\ mlm' = [mlm EXCEPT !["etl"] = r.reg]
                /\ IF r.exc # ""
                   THEN /\ last_call' = [kind |-> "trained_only",
                                         listing |-> last_call.listing,
                                         status |-> "failed", models_trained |-> EmptyDict]
                        /\ UNCHANGED disk
                   ELSE /\ last_call' = [kind |-> "trained_only",
                                         listing |-> last_call.listing,
                                         status |-> "completed",
                                         models_trained |-> r.results]
                        /\ disk' = IF r.reg.models # EmptyDict
                                   THEN [disk EXCEPT !.bundles =
                                            Put(@, BundlePath, save_models(r.reg))]
                                   ELSE disk
    /\ UNCHANGED <<platform, processor, source, idx, raw_data, processed_data, model_results,
                   pipeline_results, events, response>>

NextTrainOnly == ListDir \/ LoadFile \/ TrainLoaded

SpecTrainOnly == InitTrainOnly /\ [][NextTrainOnly]_vars

\* the latest date for which the directory holds a processed file of a source
LatestDate(d) ==
    CHOOSE k \in 1..MaxDate :
        /\ <<"processed", d, k>> \in disk.csv
        /\ \A j \in 1..MaxDate : <<"processed", d, j>> \in disk.csv => j <= k

\* C29: when run_model_training_only has completed, every source was trained
\* on the table of its most recent processed file, whatever the order of the
\* directory listing.
C29_TrainsOnLatestFile ==
    (pc = "done" /\ last_call.status = "completed") =>
        \A d \in DOMAIN processed_data :
            /\ processed_data[d] = FileTable(d, LatestDate(d))
            /\ last_call.models_trained[d] =
                   train_model(d, FileTable(d, LatestDate(d)), NewMLModels).results


----------------------------------------------------------------------------
(* DataSciencePlatform.start_platform (start.py): the main thread, the     *)
(* daemon threads that start the servers, and the server processes.        *)

\* max_attempts of wait_for_backend
MaxAttempts == 30

\* Step 1: run_etl_pipeline returns whatever the pipeline did
RunEtl ==
    /\ platform.main = "etl"
    /\ platform' = [platform EXCEPT !.main = "spawn"]
    /\ UNCHANGED appVars

\* Step 2: backend_thread.start()
StartBackendThread ==
    /\ platform.main = "spawn"
    /\ platform' = [platform EXCEPT !.main = "wait", !.backend = "install"]
    /\ UNCHANGED appVars

\* start_backend up to the Popen call: chdir, venv, pip install; an
\* exception is logged and ends the thread
BackendInstall ==
    /\ platform.backend = "install"
    /\ \E next \in {"popen", "done"} :
          platform' = [platform EXCEPT !.backend = next]
    /\ UNCHANGED appVars

\* subprocess.Popen([... uvicorn ...]): the server process exists, or the
\* call raises
BackendPopen ==
    /\ platform.backend = "popen"
    /\ \/ platform' = [platform EXCEPT !.backend = "append",
                                       !.alive = @ \cup {"Backend"}]
       \/ platform' = [platform EXCEPT !.backend = "done"]
    /\ UNCHANGED appVars

\* self.processes.append(("Backend", process))
BackendAppend ==
    /\ platform.backend = "append"
    /\ platform' = [platform EXCEPT !.backend = "done",
                                    !.processes = Append(@, "Backend")]
    /\ UNCHANGED appVars

\* the server process begins to answer GET /health
ServerReady ==
    /\ "Backend" \in platform.alive
    /\ ~platform.ready
    /\ platform' = [platform EXCEPT !.ready = TRUE]
    /\ UNCHANGED appVars

\* the server process exits by itself
ServerExit ==
    /\ "Backend" \in platform.alive
    /\ platform' = [platform EXCEPT !.alive = @ \ {"Backend"}, !.ready = FALSE]
    /\ UNCHANGED appVars

\* one pass of the loop of wait_for_backend: the health request succeeds and
\* the method returns True, or the attempt is counted
PollHealth ==
    /\ platform.main = "wait"
    /\ platform.attempt < MaxAttempts /\ platform.running
    /\ platform' = IF platform.ready
                   THEN [platform EXCEPT !.main = "spawn_frontend", !.health_ok = TRUE]
                   ELSE [platform EXCEPT !.attempt = @ + 1]
    /\ UNCHANGED appVars

\* the loop condition fails: wait_for_backend returns False and
\* stop_all_processes begins
GiveUp ==
    /\ platform.main = "wait"
    /\ ~(platform.attempt < MaxAttempts /\ platform.running)
    /\ platform' = [platform EXCEPT !.main = "stop", !.i = 1]
    /\ UNCHANGED appVars

\* one pass of the loop of stop_all_processes: terminate, wait, kill
StopNext ==
    /\ platform.main = "stop"
    /\ platform.i <= Len(platform.processes)
    /\ platform' = [platform EXCEPT
                       !.alive = @ \ {platform.processes[platform.i]},
                       !.ready = @ /\ platform.processes[platform.i] # "Backend",
                       !.i = @ + 1]
    /\ UNCHANGED appVars

\* the list is exhausted: stop_all_processes and start_platform return
StopReturn ==
    /\ platform.main = "stop"
    /\ platform.i > Len(platform.processes)
    /\ platform' = [platform EXCEPT !.main = "gave_up"]
    /\ UNCHANGED appVars

\* the interpreter exits after main() returned: a daemon thread still
\* running is abandoned where it is
Exit ==
    /\ platform.main = "gave_up"
    /\ platform' = [platform EXCEPT
                       !.main = "exited",
                       !.backend = IF @ = "done" THEN @ ELSE "killed"]
    /\ UNCHANGED appVars

\* Step 4: frontend_thread.start(); the main thread then sleeps while running
StartFrontendThread ==
    /\ platform.main = "spawn_frontend"
    /\ platform' = [platform EXCEPT !.main = "serving", !.frontend = "popen"]
    /\ UNCHANGED appVars

\* start_frontend: subprocess.Popen(["npm", "start"]) or an exception
FrontendPopen ==
    /\ platform.frontend = "popen"
    /\ \/ platform' = [platform EXCEPT !.frontend = "append",
                                       !.alive = @ \cup {"Frontend"}]
       \/ platform' = [platform EXCEPT !.frontend = "done"]
    /\ UNCHANGED appVars

\* self.processes.append(("Frontend", process))
FrontendAppend ==
    /\ platform.frontend = "append"
    /\ platform' = [platform EXCEPT !.frontend = "done",
                                    !.processes = Append(@, "Frontend")]
    /\ UNCHANGED appVars

NextPlatform ==
    \/ RunEtl
    \/ StartBackendThread
    \/ BackendInstall
    \/ BackendPopen
    \/ BackendAppend
    \/ ServerReady
    \/ ServerExit
    \/ PollHealth
    \/ GiveUp
    \/ StopNext
    \/ StopReturn
    \/ Exit
    \/ StartFrontendThread
    \/ FrontendPopen
    \/ FrontendAppend

InitPlatform ==
    /\ IdleRun
    /\ mlm = [o \in Objs |-> NewMLModels]
    /\ disk = [bundles |-> EmptyDict, csv |-> {}, reports |-> <<>>]
    /\ last_call = [kind |-> "none"]
    /\ response = [status |-> 0]

SpecPlatform == InitPlatform /\ [][NextPlatform]_vars

\* C30: the frontend is started only after a health check of the backend
\* succeeded; wait_for_backend makes at most MaxAttempts attempts; and once
\* it has given up and stop_all_processes has returned, no backend server
\* process is running.
C30_GiveUpLeavesNoBackend ==
    /\ platform.frontend # "unstarted" => platform.health_ok
    /\ platform.attempt <= MaxAttempts
    /\ platform.main \in {"gave_up", "exited"} => "Backend" \notin platform.alive

====
